---- MODULE Spec2Model ----
(***************************************************************************)
(* Governance, consensus verification and treatment orchestration of      *)
(* app/backend/orchestrator.py and app/backend/tools/                      *)
(* treatment_orchestrator.py.                                              *)
(*                                                                         *)
(* Six specifications share the variables:                                 *)
(*   Spec      AIGovernance on a registry of up to three producers;        *)
(*   SpecProc  Orchestrator.process_request, register_ai, verify_output    *)
(*             and get_health_report on each registry of Spec;             *)
(*   SpecCV    AIGovernance._cross_validate as a pure function of a        *)
(*             registry of up to MaxPeers + 1 producers;                   *)
(*   SpecExam  SelfExamination.analyze_performance as a pure function of   *)
(*             the performance history;                                    *)
(*   SpecTreat TreatmentOrchestrator, suggestions and approvals;           *)
(*   SpecExec  TreatmentOrchestrator, execution of approved treatments.    *)
(*                                                                         *)
(* Floating-point rates are kept as exact fractions [num, den]; for the    *)
(* small numerators and denominators reached here Python's correctly       *)
(* rounded k / n compares with the literals 0.7 and 0.3 exactly as the     *)
(* fractions do.                                                           *)
(***************************************************************************)
EXTENDS Integers, Sequences, FiniteSets, TLC

VARIABLES ai_instances, audit_log, last_call,
          mode, is_parameterized, approved_treatments, execution_handlers,
          handler_calls, running, performance_history, in_flight

vars == <<ai_instances, audit_log, last_call,
          mode, is_parameterized, approved_treatments, execution_handlers,
          handler_calls, running, performance_history, in_flight>>

govVars == <<ai_instances, audit_log>>
\* handler_calls[i] counts the handler invocations made for the i-th approved
\* treatment (observation only); running holds the approved treatments whose
\* execute_treatment call is suspended in "await handler()"
treatVars == <<mode, is_parameterized, approved_treatments, execution_handlers,
               handler_calls, running>>
examVars == <<performance_history>>
\* in_flight[t] is the position of thread t inside a verify_output call that
\* failed the self-check (SpecRace); no other specification runs threads
raceVars == <<in_flight>>

(***************************************************************************)
(* Bounds and sample inputs                                                *)
(***************************************************************************)
\* no call is explored that would take a consecutive-error counter past MaxErrors
MaxErrors == 3
\* longest producer chain handed to process_request
MaxChain == 2
\* most peers of the source producer in SpecCV
MaxPeers == 10
\* longest treatment history explored in SpecTreat
MaxApproved == 2
\* most handler invocations explored in one run of SpecExec
MaxHandlerCalls == 2
\* longest runs of samples in the performance histories of SpecExam
\* threads calling verify_output at the same time in SpecRace
MaxThreads == 2
MaxHead == 1
MaxFiller == 10

Names == {"A", "B", "C"}
Outputs == {"ok", "bad"}
\* a validator is the set of outputs it accepts
AcceptsOk == {"ok"}
AcceptsAll == {"ok", "bad"}
Validators == {AcceptsOk, AcceptsAll}

NoExc == "none"
AttributeError == "AttributeError"

(***************************************************************************)
(* Fractions                                                               *)
(***************************************************************************)
Frac(n, d) == [num |-> n, den |-> d]
FracLt(a, b) == a.num * b.den < b.num * a.den

(***************************************************************************)
(* AIGovernance                                                            *)
(***************************************************************************)
\* self.consensus_threshold = 0.7
consensus_threshold == Frac(7, 10)
\* the literal 0.3 of _handle_anomaly
severe_threshold == Frac(3, 10)
\* the literal 0.95 returned by verify_output
nominal_confidence == Frac(95, 100)

\* the record register_ai stores for a name
NewInstance(validator) ==
    [validator |-> validator, health |-> "healthy", consecutive_errors |-> 0]

\* validator(output): the verdict dict of a validator capability
Validate(validator, output) ==
    [valid |-> output \in validator,
     reason |-> IF output \in validator THEN "accepted" ELSE "rejected"]

\* The running state of one call on the governance object: the registry, the
\* audit log, the exception in flight, the value returned, and (observation
\* only) the validators invoked and the recovery actions entered so far.
Begin(ai, log) ==
    [ai |-> ai, log |-> log, exc |-> NoExc, ret |-> [valid |-> FALSE, reason |-> "none"],
     called |-> <<>>, recov |-> 0]

Return(st, value) == [st EXCEPT !.ret = value]

\* self._audit(...): AIGovernance defines no attribute _audit, so the
\* attribute lookup raises AttributeError before anything is appended.
audit(st, entry) == [st EXCEPT !.exc = AttributeError]

attempt_recovery(st, ai_name) ==
    LET s1 == [st EXCEPT !.ai[ai_name].consecutive_errors = 0,
                         !.recov = @ + 1]
    IN audit(s1, <<"RECOVERY", ai_name>>)

\* the test of line 82
ReachedDegradation(errors) == errors >= 3

handle_invalid_output(st, ai_name) ==
    LET s1 == [st EXCEPT !.ai[ai_name].consecutive_errors = @ + 1]
    IN IF ReachedDegradation(s1.ai[ai_name].consecutive_errors)
       THEN LET s2 == [s1 EXCEPT !.ai[ai_name].health = "degraded"]
                s3 == audit(s2, <<"ALERTA", ai_name>>)
            IN IF s3.exc # NoExc THEN s3 ELSE attempt_recovery(s3, ai_name)
       ELSE s1

\* the test of line 92
IsSevere(agreement_rate) == FracLt(agreement_rate, severe_threshold)

\* fault seeded for C29: an anomaly counts as an error of the producer
handle_anomaly_counting(st, ai_name, anomaly_info) ==
    LET s0 == [st EXCEPT !.ai[ai_name].consecutive_errors = @ + 1]
        s1 == audit(s0, <<"ANOMALIA", ai_name, anomaly_info.agreement_rate>>)
    IN IF s1.exc # NoExc THEN s1
       ELSE IF IsSevere(anomaly_info.agreement_rate)
            THEN audit(s1, <<"ROLLBACK", ai_name>>)
            ELSE audit(s1, <<"FEEDBACK", ai_name>>)

\* _handle_anomaly (lines 87-95)
handle_anomaly(st, ai_name, anomaly_info) ==
    LET s1 == audit(st, <<"ANOMALIA", ai_name, anomaly_info.agreement_rate>>)
    IN IF s1.exc # NoExc THEN s1
       ELSE IF IsSevere(anomaly_info.agreement_rate)
            THEN audit(s1, <<"ROLLBACK", ai_name>>)
            ELSE audit(s1, <<"FEEDBACK", ai_name>>)

\* fault seeded for C4: the loop forgets to skip the source producer
ConsultedWithSource(ai, source_ai) == DOMAIN ai

\* the producers the loop of _cross_validate consults (lines 58-60)
Consulted(ai, source_ai) == DOMAIN ai \ {source_ai}

\* fault seeded for C3: a non-strict comparison with the threshold
IsAnomalyNonStrict(agreement_rate) == ~FracLt(consensus_threshold, agreement_rate)

\* the comparison of line 70
IsAnomaly(agreement_rate) == FracLt(agreement_rate, consensus_threshold)

\* sum(validations)
RECURSIVE SumValid(_)
SumValid(validations) ==
    IF validations = <<>> THEN 0
    ELSE (IF Head(validations) THEN 1 ELSE 0) + SumValid(Tail(validations))

\* the loop of lines 58-64 over the producers still to consult
RECURSIVE CollectValidations(_, _, _, _)
CollectValidations(st, todo, output, validations) ==
    IF todo = {} THEN [st |-> st, validations |-> validations]
    ELSE LET ia_name == CHOOSE n \in todo : TRUE
         IN CHOOSE c \in
                {CollectValidations(s1, todo \ {ia_name}, output, v1) :
                    s1 \in {[st EXCEPT !.called = Append(@, ia_name)]},
                    v1 \in {Append(validations,
                                   Validate(st.ai[ia_name].validator, output).valid)}} : TRUE

\* returns the call state with ret set to the cross-validation report
cross_validate(st, source_ai, output) ==
    CHOOSE out \in
        {IF c.validations = <<>>
         THEN Return(c.st, [anomaly_detected |-> FALSE])
         ELSE LET agreement_rate ==
                      Frac(SumValid(c.validations), Len(c.validations))
              IN Return(c.st, [anomaly_detected |-> IsAnomaly(agreement_rate),
                               agreement_rate |-> agreement_rate,
                               required_threshold |-> consensus_threshold]) :
            c \in {CollectValidations(st, Consulted(st.ai, source_ai), output, <<>>)}} : TRUE

\* fault seeded for C2: cross-validation only from three producers on
HasPeersOffByOne(ai) == Cardinality(DOMAIN ai) > 2

\* the test of line 46
HasPeers(ai) == Cardinality(DOMAIN ai) > 1

\* fault seeded for C18: an unknown name is reported as valid
ia_no_registrada_valid == [valid |-> TRUE, reason |-> "IA no registrada"]

\* line 35
ia_no_registrada == [valid |-> FALSE, reason |-> "IA no registrada"]

\* fault seeded for C16 and C17: a passing self-check clears the error
\* counter and the degraded health of the producer
verify_output_healing(st, ai_name, output) ==
    IF ai_name \notin DOMAIN st.ai
    THEN Return(st, ia_no_registrada)
    ELSE
    LET internal_check == Validate(st.ai[ai_name].validator, output)
        healed == IF internal_check.valid
                  THEN [st.ai EXCEPT ![ai_name].consecutive_errors = 0,
                                     ![ai_name].health = "healthy"]
                  ELSE st.ai
        s1 == [st EXCEPT !.called = Append(@, ai_name), !.ai = healed]
    IN IF ~internal_check.valid
       THEN LET s2 == handle_invalid_output(s1, ai_name)
            IN IF s2.exc # NoExc THEN s2 ELSE Return(s2, internal_check)
       ELSE IF HasPeers(s1.ai)
            THEN LET s3 == cross_validate(s1, ai_name, output)
                     cross_validation == s3.ret
                 IN IF cross_validation.anomaly_detected
                    THEN LET s4 == handle_anomaly(s3, ai_name, cross_validation)
                         IN IF s4.exc # NoExc THEN s4
                            ELSE Return(s4, [valid |-> FALSE,
                                             reason |-> "Anomalia detectada",
                                             details |-> cross_validation])
                    ELSE Return(s3, [valid |-> TRUE,
                                     confidence |-> nominal_confidence])
            ELSE Return(s1, [valid |-> TRUE, confidence |-> nominal_confidence])

verify_output(st, ai_name, output) ==
    IF ai_name \notin DOMAIN st.ai
    THEN Return(st, ia_no_registrada)
    ELSE
    LET internal_check == Validate(st.ai[ai_name].validator, output)
        s1 == [st EXCEPT !.called = Append(@, ai_name)]
    IN IF ~internal_check.valid
       THEN LET s2 == handle_invalid_output(s1, ai_name)
            IN IF s2.exc # NoExc THEN s2 ELSE Return(s2, internal_check)
       ELSE IF HasPeers(s1.ai)
            THEN LET s3 == cross_validate(s1, ai_name, output)
                     cross_validation == s3.ret
                 IN IF cross_validation.anomaly_detected
                    THEN LET s4 == handle_anomaly(s3, ai_name, cross_validation)
                         IN IF s4.exc # NoExc THEN s4
                            ELSE Return(s4, [valid |-> FALSE,
                                             reason |-> "Anomalia detectada",
                                             details |-> cross_validation])
                    ELSE Return(s3, [valid |-> TRUE,
                                     confidence |-> nominal_confidence])
            ELSE Return(s1, [valid |-> TRUE, confidence |-> nominal_confidence])

register_ai(st, name, validator) ==
    LET s1 == [st EXCEPT !.ai = [n \in DOMAIN st.ai \cup {name} |->
                                    IF n = name THEN NewInstance(validator)
                                    ELSE st.ai[n]]]
    IN audit(s1, <<"IA registrada", name>>)

(***************************************************************************)
(* Orchestrator.process_request                                            *)
(***************************************************************************)
\* A chain entry is a producer call: the function's __name__ and the output
\* it produces for the request's input.
ChainEntries == [name : Names, output : Outputs]

\* fault seeded for C9: the division without the guard for an empty chain
\* (a zero denominator stands for ZeroDivisionError)
success_rate_unguarded(results, ia_chain) == Frac(Len(results), Len(ia_chain))

\* line 226
success_rate(results, ia_chain) ==
    IF Len(ia_chain) # 0 THEN Frac(Len(results), Len(ia_chain)) ELSE Frac(0, 1)

\* the events of a request in the order they happen: the call of a chain
\* entry's producer (line 208) and the return of verify_output for its
\* output (line 212)
Invoked(ia_chain, i) == [ev |-> "invoked", i |-> i, name |-> ia_chain[i].name]
Verified(ia_chain, i) == [ev |-> "verified", i |-> i, name |-> ia_chain[i].name]

\* one iteration of the loop of lines 207-218 once verify_output has left
\* the call in state s1, then the rest of the chain
RECURSIVE run_chain(_, _, _, _, _, _, _)
after_verification(s1, ia_chain, i, results, invoked, verdicts, events) ==
    IF s1.exc # NoExc
    THEN [st |-> s1, results |-> results, invoked |-> invoked, verdicts |-> verdicts,
          events |-> events]
    ELSE IF ~s1.ret.valid
         THEN run_chain(s1, ia_chain, i + 1, results, invoked, Append(verdicts, FALSE),
                        Append(events, Verified(ia_chain, i)))
         ELSE run_chain(s1, ia_chain, i + 1,
                        Append(results, [ia |-> ia_chain[i].name,
                                         output |-> ia_chain[i].output]),
                        invoked, Append(verdicts, TRUE),
                        Append(events, Verified(ia_chain, i)))

\* fault seeded for C25: the producer of the next chain entry is started
\* before the verification of the current one
run_chain_invoking_ahead(st, ia_chain, i, results, invoked, verdicts, events) ==
    IF i > Len(ia_chain)
    THEN [st |-> st, results |-> results, invoked |-> invoked, verdicts |-> verdicts,
          events |-> events]
    ELSE CHOOSE r \in
             {after_verification(s1, ia_chain, i, results, Append(invoked, i), verdicts,
                  events
                  \o (IF i = 1 THEN <<Invoked(ia_chain, i)>> ELSE <<>>)
                  \o (IF i < Len(ia_chain) THEN <<Invoked(ia_chain, i + 1)>> ELSE <<>>)) :
                 s1 \in {verify_output(st, ia_chain[i].name, ia_chain[i].output)}} : TRUE

\* the loop of lines 207-218 from entry i on; invoked lists the chain
\* positions whose producer ran, verdicts the valid flag verify_output
\* returned for each.  (The singleton sets bind each intermediate state once.)
run_chain(st, ia_chain, i, results, invoked, verdicts, events) ==
    IF i > Len(ia_chain)
    THEN [st |-> st, results |-> results, invoked |-> invoked, verdicts |-> verdicts,
          events |-> events]
    ELSE CHOOSE r \in
             {after_verification(s1, ia_chain, i, results, Append(invoked, i), verdicts,
                                 Append(events, Invoked(ia_chain, i))) :
                 s1 \in {verify_output(st, ia_chain[i].name, ia_chain[i].output)}} : TRUE

\* the whole call; the value returned is meaningful when st.exc = NoExc.
\* self_exam.analyze_performance(metrics) follows in the action ProcessRequest.
process_request(st, ia_chain) ==
    CHOOSE out \in
        {[st |-> r.st, results |-> r.results,
          metrics |-> [ias_executed |-> Len(r.results),
                       success_rate |-> success_rate(r.results, ia_chain)],
          invoked |-> r.invoked, verdicts |-> r.verdicts, events |-> r.events] :
            r \in {run_chain(st, ia_chain, 1, <<>>, <<>>, <<>>, <<>>)}} : TRUE

(***************************************************************************)
(* SelfExamination                                                         *)
(***************************************************************************)
\* a - b and a / b on fractions with positive denominators (b # 0 for a / b)
FracSub(a, b) == Frac(a.num * b.den - b.num * a.den, a.den * b.den)
FracDiv(a, b) ==
    IF b.num > 0 THEN Frac(a.num * b.den, a.den * b.num)
    ELSE Frac(-(a.num * b.den), -(a.den * b.num))

\* an entry of performance_history (its timestamp is never read)
Sample(metric, value) == [metric |-> metric, value |-> value]

\* performance_history[-10:]
TrendWindow == 10
improving_threshold == Frac(1, 10)
declining_threshold == Frac(-1, 10)

\* history[-n:]
LastEntries(history, n) ==
    IF Len(history) <= n THEN history
    ELSE SubSeq(history, Len(history) - n + 1, Len(history))

\* the values of one metric in a sequence of entries, oldest first
RECURSIVE ValuesOf(_, _)
ValuesOf(entries, metric) ==
    IF entries = <<>> THEN <<>>
    ELSE IF entries[1].metric = metric
         THEN <<entries[1].value>> \o ValuesOf(Tail(entries), metric)
         ELSE ValuesOf(Tail(entries), metric)

\* the keys of metrics_by_type in insertion order: the metrics of the
\* entries, each at its first occurrence
RECURSIVE MetricOrder(_, _)
MetricOrder(entries, seen) ==
    IF entries = <<>> THEN seen
    ELSE IF \E k \in 1..Len(seen) : seen[k] = entries[1].metric
         THEN MetricOrder(Tail(entries), seen)
         ELSE MetricOrder(Tail(entries), Append(seen, entries[1].metric))

\* line 154
avg_change(values) ==
    IF values[1].num # 0
    THEN FracDiv(FracSub(values[Len(values)], values[1]), values[1])
    ELSE Frac(0, 1)

\* fault seeded for C20: the comparisons with 0.1 and -0.1 are not strict
trend_of_nonstrict(values) ==
    IF Len(values) < 2 THEN "insufficient_data"
    ELSE IF ~FracLt(avg_change(values), improving_threshold) THEN "improving"
    ELSE IF ~FracLt(declining_threshold, avg_change(values)) THEN "declining"
    ELSE "stable"

\* lines 150-161
trend_of(values) ==
    IF Len(values) < 2 THEN "insufficient_data"
    ELSE IF FracLt(improving_threshold, avg_change(values)) THEN "improving"
    ELSE IF FracLt(avg_change(values), declining_threshold) THEN "declining"
    ELSE "stable"

\* lines 141-163 on the entries w of the window
TrendsIn(w) ==
    [metric \in {w[k].metric : k \in 1..Len(w)} |-> trend_of(ValuesOf(w, metric))]

\* _detect_trends: a trend for every metric with an entry among the last
\* TrendWindow entries of the history
detect_trends(history) ==
    CHOOSE trends \in {TrendsIn(w) : w \in {LastEntries(history, TrendWindow)}} : TRUE

\* the metrics with a given trend, in the order of the trends dict
RECURSIVE WithTrend(_, _, _)
WithTrend(order, trends, trend) ==
    IF order = <<>> THEN <<>>
    ELSE IF trends[order[1]] = trend
         THEN <<order[1]>> \o WithTrend(Tail(order), trends, trend)
         ELSE WithTrend(Tail(order), trends, trend)

\* _self_diagnose; an issue f'{metric} en declive' and a strength
\* f'{metric} mejorando' are kept as the metric they name
self_diagnose(history, trends) ==
    CHOOSE d \in
        {[issues |-> WithTrend(order, trends, "declining"),
          strengths |-> WithTrend(order, trends, "improving")] :
            order \in {MetricOrder(LastEntries(history, TrendWindow), <<>>)}} : TRUE

\* the keywords of lines 183-187 that occur in a metric name as substrings,
\* for the metric names used here
KeywordsIn(metric) ==
    IF metric \in {"response_time", "accuracy", "error_rate"} THEN {metric}
    ELSE IF metric = "accuracy_error_rate" THEN {"accuracy", "error_rate"}
    ELSE {}

\* fault seeded for C21: three independent ifs in place of the if / elif chain
PlanForEachKeyword(issue) ==
    (IF "response_time" \in KeywordsIn(issue)
     THEN <<"Optimizar latencia: revisar algoritmo de procesamiento">> ELSE <<>>)
    \o (IF "accuracy" \in KeywordsIn(issue)
        THEN <<"Mejorar precision: aumentar datos de entrenamiento">> ELSE <<>>)
    \o (IF "error_rate" \in KeywordsIn(issue)
        THEN <<"Reducir errores: implementar validaciones adicionales">> ELSE <<>>)

\* lines 183-188 for one issue
PlanFor(issue) ==
    IF "response_time" \in KeywordsIn(issue)
    THEN <<"Optimizar latencia: revisar algoritmo de procesamiento">>
    ELSE IF "accuracy" \in KeywordsIn(issue)
    THEN <<"Mejorar precision: aumentar datos de entrenamiento">>
    ELSE IF "error_rate" \in KeywordsIn(issue)
    THEN <<"Reducir errores: implementar validaciones adicionales">>
    ELSE <<>>

RECURSIVE generate_improvement_plan(_)
generate_improvement_plan(issues) ==
    IF issues = <<>> THEN <<>>
    ELSE PlanFor(issues[1]) \o generate_improvement_plan(Tail(issues))

\* lines 124-134 on the history h with the new entries appended
Analysis(h, trends) ==
    CHOOSE ret \in
        {[trends |-> trends, diagnosis |-> d,
          improvement_plan |-> generate_improvement_plan(d.issues)] :
            d \in {self_diagnose(h, trends)}} : TRUE

\* analyze_performance; metrics is the dict as the sequence of its items
analyze_performance(history, metrics) ==
    CHOOSE out \in
        {[history |-> h, ret |-> Analysis(h, detect_trends(h))] :
            h \in {history \o metrics}} : TRUE

(***************************************************************************)
(* Orchestrator.get_health_report                                          *)
(***************************************************************************)
\* lines 242-249 (timestamp and uptime left out)
HealthReport(ai, log, history) ==
    [ias_registered |-> Cardinality(DOMAIN ai),
     governance_status |-> [n \in DOMAIN ai |-> ai[n].health],
     performance_trend |-> detect_trends(history),
     audit_log_size |-> Len(log)]

\* fault seeded for C26: the report is entered in the audit log
get_health_report_audited(st, history) ==
    [st |-> [Return(st, HealthReport(st.ai, st.log, history))
                 EXCEPT !.log = Append(@, <<"REPORT">>)],
     history |-> history]

\* the call on the governance state st and the performance history: the
\* state it leaves and the report it returns
get_health_report(st, history) ==
    [st |-> Return(st, HealthReport(st.ai, st.log, history)), history |-> history]

(***************************************************************************)
(* TreatmentOrchestrator                                                   *)
(***************************************************************************)
HUMAN_IN_LOOP == "human_in_loop"
AUTONOMOUS == "autonomous"
TreatmentMode == {HUMAN_IN_LOOP, AUTONOMOUS}

Option(id, risk, reversible, needsHuman, level) ==
    [id |-> id, risk_level |-> risk, reversible |-> reversible,
     requires_human_approval |-> needsHuman, disconnection_level |-> level]

\* TreatmentCatalog._initialize_treatments
treatments ==
    [viral_infection |->
        << Option("virus_scan", "low", TRUE, FALSE, "None"),
           Option("isolate_module", "medium", TRUE, TRUE, "None") >>,
     fracture |->
        << Option("fix_imports", "low", TRUE, FALSE, "None"),
           Option("run_tests", "low", TRUE, FALSE, "None") >>,
     heart_attack |->
        << Option("system_restart", "high", TRUE, TRUE, "None"),
           Option("full_reset", "critical", FALSE, TRUE, "None") >>,
     depression |->
        << Option("increase_temperature", "low", TRUE, FALSE, "None"),
           Option("system_encouragement", "low", TRUE, FALSE, "None") >>,
     schizophrenia |->
        << Option("context_limiting", "medium", TRUE, TRUE, "CONTEXT_ISOLATION"),
           Option("response_filtering", "low", TRUE, FALSE, "RESPONSE_FILTERING") >>,
     burnout |->
        << Option("rate_limit", "low", TRUE, FALSE, "RESPONSE_FILTERING"),
           Option("temp_disconnect", "medium", TRUE, TRUE, "FULL_DISCONNECTION") >> ]

get_treatments_for_condition(condition) ==
    IF condition \in DOMAIN treatments THEN treatments[condition] ELSE <<>>

suggest_treatments(condition, severity) == get_treatments_for_condition(condition)

\* ApprovedTreatment(...) with the dataclass defaults
ApprovedTreatment(option, by, rationale) ==
    [treatment_option |-> option, approved_by |-> by,
     approval_rationale |-> rationale,
     execution_status |-> "pending", execution_result |-> ""]

\* the test of line 256
AutoApproves(treatment_option, condition_severity) ==
    treatment_option.requires_human_approval /\ condition_severity = "critical"

\* fault seeded for C10: every mode counts as parameterized
ParameterizedAlways(m) == m \in TreatmentMode

\* self.is_parameterized = mode == TreatmentMode.AUTONOMOUS
Parameterized(m) == m = AUTONOMOUS

\* fault seeded for C22: the approved treatment is inserted at the front
human_approve_treatment_prepending(history, treatment_option, human_decision, rationale) ==
    IF ~human_decision
    THEN [history |-> history, ret |-> [approved |-> FALSE]]
    ELSE LET approved == ApprovedTreatment(treatment_option, "human", rationale)
         IN [history |-> <<approved>> \o history,
             ret |-> [approved |-> TRUE, treatment |-> approved]]

\* both approval paths return [history, ret]; ret.approved tells a returned
\* ApprovedTreatment from None
human_approve_treatment(history, treatment_option, human_decision, rationale) ==
    IF ~human_decision
    THEN [history |-> history, ret |-> [approved |-> FALSE]]
    ELSE LET approved == ApprovedTreatment(treatment_option, "human", rationale)
         IN [history |-> Append(history, approved),
             ret |-> [approved |-> TRUE, treatment |-> approved]]

autonomous_approve_treatment(history, parameterized, treatment_option, condition_severity) ==
    IF ~parameterized
    THEN [history |-> history, ret |-> [approved |-> FALSE]]
    ELSE IF AutoApproves(treatment_option, condition_severity)
         THEN LET approved == ApprovedTreatment(treatment_option, "orchestrator",
                                 <<"Critical severity detected, auto-approving",
                                   treatment_option.id>>)
              IN [history |-> Append(history, approved),
                  ret |-> [approved |-> TRUE, treatment |-> approved]]
         ELSE [history |-> history, ret |-> [approved |-> FALSE]]

\* what a bound handler does when called: it returns a result, raises an
\* exception derived from Exception, or raises one that is not (CancelledError,
\* KeyboardInterrupt, SystemExit), which "except Exception" does not catch
Returns == "returns"
RaisesException == "raises Exception"
RaisesBaseException == "raises BaseException"
HandlerOutcomes == {Returns, RaisesException, RaisesBaseException}
BaseExceptionEscapes == "BaseException"

\* line 280
execute_begin(history, i) == [history EXCEPT ![i].execution_status = "executing"]

\* fault seeded for C12: the except clause records the failure and raises again
execute_finish_reraising(history, i, outcome) ==
    IF outcome = Returns
    THEN [history |-> [history EXCEPT ![i].execution_status = "completed",
                                      ![i].execution_result = "str(result)"],
          ret |-> TRUE, exc |-> NoExc]
    ELSE [history |-> [history EXCEPT ![i].execution_status = "failed",
                                      ![i].execution_result = "str(e)"],
          ret |-> FALSE, exc |-> "Exception"]

\* lines 281-290, from the point where the handler's outcome is known
execute_finish(history, i, outcome) ==
    IF outcome = Returns
    THEN [history |-> [history EXCEPT ![i].execution_status = "completed",
                                      ![i].execution_result = "str(result)"],
          ret |-> TRUE, exc |-> NoExc]
    ELSE IF outcome = RaisesException
         THEN [history |-> [history EXCEPT ![i].execution_status = "failed",
                                           ![i].execution_result = "str(e)"],
               ret |-> FALSE, exc |-> NoExc]
         ELSE [history |-> history, ret |-> FALSE, exc |-> BaseExceptionEscapes]

\* fault seeded for C13: the result of the lookup is not tested, and the call
\* goes on into the try block without a handler
HandlerBoundAlways(handlers, treatment_id) == TRUE

\* the test of line 273 (a registered handler is a callable, which is truthy)
HandlerBound(handlers, treatment_id) == treatment_id \in DOMAIN handlers

\* execute_treatment on the history entry at index i, run without suspension;
\* outcome is what the handler does when one is bound; statuses lists the
\* values the call assigns to execution_status, in order
execute_treatment(history, handlers, i, outcome) ==
    LET treatment == history[i].treatment_option
    IN IF ~HandlerBound(handlers, treatment.id)
       THEN [history |-> [history EXCEPT ![i].execution_status = "failed",
                                         ![i].execution_result = "No handler registered"],
             ret |-> FALSE, exc |-> NoExc, handler_ran |-> FALSE,
             statuses |-> <<"failed">>]
       ELSE LET f == execute_finish(execute_begin(history, i), i, outcome)
            IN [history |-> f.history, ret |-> f.ret, exc |-> f.exc,
                handler_ran |-> treatment.id \in DOMAIN handlers,
                statuses |-> IF f.exc = NoExc
                             THEN <<"executing", f.history[i].execution_status>>
                             ELSE <<"executing">>]

get_treatment_history(history) ==
    [i \in 1..Len(history) |->
        [treatment_id |-> history[i].treatment_option.id,
         approved_by |-> history[i].approved_by,
         execution_status |-> history[i].execution_status,
         disconnection_level |-> history[i].treatment_option.disconnection_level]]

(***************************************************************************)
(* Specification Spec: the governance object                               *)
(***************************************************************************)
NoInstances == [n \in {} |-> NewInstance(AcceptsOk)]

GovInit ==
    /\ ai_instances = NoInstances
    /\ audit_log = <<>>

\* execution_handlers maps a treatment id to the kind of handler bound to
\* it: a plain function ("sync") or a coroutine function ("async")
NoHandlers == [id \in {} |-> "sync"]

ExamIdle == performance_history = <<>>

\* a thread that is not inside a call
Idle == [pc |-> "idle", name |-> "", tmp |-> 0]
Threads == 1..MaxThreads
NoThreads == in_flight = [t \in Threads |-> Idle]

TreatIdle ==
    /\ mode = HUMAN_IN_LOOP
    /\ is_parameterized = Parameterized(HUMAN_IN_LOOP)
    /\ approved_treatments = <<>>
    /\ execution_handlers = NoHandlers
    /\ handler_calls = <<>>
    /\ running = {}

Init ==
    /\ NoThreads
    /\ GovInit
    /\ TreatIdle
    /\ ExamIdle
    /\ last_call = [op |-> "init"]

Chains == UNION {[1..k -> ChainEntries] : k \in 0..MaxChain}

WithinErrors(ai) == \A n \in DOMAIN ai : ai[n].consecutive_errors <= MaxErrors

ErrorsOf(ai, name) == IF name \in DOMAIN ai THEN ai[name].consecutive_errors ELSE 0
HealthOf(ai, name) == IF name \in DOMAIN ai THEN ai[name].health ELSE "unregistered"

RegisterAI ==
    \E name \in Names, validator \in Validators :
        \E r \in {register_ai(Begin(ai_instances, audit_log), name, validator)} :
           /\ ai_instances' = r.ai
           /\ audit_log' = r.log
           /\ last_call' = [op |-> "register_ai", name |-> name,
                            validator |-> validator, exc |-> r.exc,
                            errors_before |-> ErrorsOf(ai_instances, name),
                            health_before |-> HealthOf(ai_instances, name)]
           /\ UNCHANGED <<raceVars, treatVars, examVars>>

VerifyOutput ==
    \E ai_name \in Names, output \in Outputs :
        \E r \in {verify_output(Begin(ai_instances, audit_log), ai_name, output)} :
           /\ WithinErrors(r.ai)
           /\ ai_instances' = r.ai
           /\ audit_log' = r.log
           /\ last_call' = [op |-> "verify_output", name |-> ai_name,
                            output |-> output, exc |-> r.exc, ret |-> r.ret,
                            called |-> r.called, recov |-> r.recov,
                            errors_before |-> ErrorsOf(ai_instances, ai_name),
                            health_before |-> HealthOf(ai_instances, ai_name),
                            log_before |-> Len(audit_log)]
           /\ UNCHANGED <<raceVars, treatVars, examVars>>

\* Orchestrator.get_health_report (timestamp and uptime left out)
GetHealthReport ==
    \E r \in {get_health_report(Begin(ai_instances, audit_log), performance_history)} :
        /\ ai_instances' = r.st.ai
        /\ audit_log' = r.st.log
        /\ performance_history' = r.history
        /\ last_call' = [op |-> "get_health_report", exc |-> r.st.exc,
                         ias_registered |-> r.st.ret.ias_registered,
                         governance_status |-> r.st.ret.governance_status,
                         performance_trend |-> r.st.ret.performance_trend,
                         audit_log_size |-> r.st.ret.audit_log_size]
        /\ UNCHANGED <<raceVars, treatVars>>

Next == RegisterAI \/ VerifyOutput \/ GetHealthReport

Spec == Init /\ [][Next]_vars

(***************************************************************************)
(* Specification SpecProc: the operations of the orchestrator on each      *)
(* registry that Spec can reach, process_request as the first of them      *)
(***************************************************************************)
\* Every registry Spec reaches is one of these, and Spec reaches each of them
\* (RegistryShape is an invariant of Spec): a registered producer is degraded
\* exactly when its counter has reached the degradation test, and only a
\* validator that rejects some output has counted an error.
InstanceStates ==
    {[validator |-> v, health |-> h, consecutive_errors |-> e] :
        v \in Validators, h \in {"healthy", "degraded"}, e \in 0..MaxErrors}
ReachableInstances ==
    {r \in InstanceStates :
        /\ (r.health = "degraded") <=> ReachedDegradation(r.consecutive_errors)
        /\ r.consecutive_errors > 0 => r.validator # Outputs}
GovRegistries ==
    UNION {[S -> ReachableInstances] : S \in SUBSET Names}
RegistryShape == ai_instances \in GovRegistries

InitProc ==
    /\ NoThreads
    /\ ai_instances \in GovRegistries
    /\ audit_log = <<>>
    /\ TreatIdle
    /\ ExamIdle
    /\ last_call = [op |-> "init"]

\* time.time() - start_time, as seen by the samples drawn here
ElapsedTimes == {Frac(1, 100)}

\* lines 223-227 as the items of the metrics dict
MetricsOf(elapsed, r) ==
    <<Sample("response_time", elapsed),
      Sample("ias_executed", Frac(r.metrics.ias_executed, 1)),
      Sample("success_rate", r.metrics.success_rate)>>

\* the self-examination is reached when no verify_output call has raised
ProcessRequest ==
    /\ last_call.op = "init"
    /\ \E ia_chain \in Chains, elapsed \in ElapsedTimes :
        \E r \in {process_request(Begin(ai_instances, audit_log), ia_chain)} :
         \E a \in {IF r.st.exc = NoExc
                   THEN analyze_performance(performance_history, MetricsOf(elapsed, r))
                   ELSE [history |-> performance_history, ret |-> "not reached"]} :
           /\ WithinErrors(r.st.ai)
           /\ ai_instances' = r.st.ai
           /\ audit_log' = r.st.log
           /\ performance_history' = a.history
           /\ last_call' = [op |-> "process_request", chain |-> ia_chain,
                            exc |-> r.st.exc, results |-> r.results,
                            metrics |-> r.metrics, invoked |-> r.invoked,
                            verdicts |-> r.verdicts, events |-> r.events,
                            self_analysis |-> a.ret,
                            recov |-> r.st.recov,
                            before |-> ai_instances]
           /\ UNCHANGED <<treatVars, raceVars>>

NextProc == ProcessRequest \/ RegisterAI \/ VerifyOutput \/ GetHealthReport

SpecProc == InitProc /\ [][NextProc]_vars

(***************************************************************************)
(* Specification SpecRace: verify_output called from MaxThreads threads    *)
(* with outputs that fail the self-check, one step per access to the       *)
(* producer record.  AIGovernance holds no lock, so the steps of different *)
(* threads interleave freely.  last_call keeps the registry the threads    *)
(* started from.                                                           *)
(***************************************************************************)
InitRace ==
    /\ ai_instances \in GovRegistries
    /\ audit_log = <<>>
    /\ TreatIdle
    /\ ExamIdle
    /\ in_flight = [t \in Threads |-> Idle]
    /\ last_call = [op |-> "threads", before |-> ai_instances]

\* lines 34-42: the producer is registered, its validator rejects the output
\* and _handle_invalid_output is entered
ThreadCall ==
    \E t \in Threads, ai_name \in DOMAIN ai_instances, output \in Outputs :
        /\ in_flight[t].pc = "idle"
        /\ ~Validate(ai_instances[ai_name].validator, output).valid
        /\ in_flight' = [in_flight EXCEPT ![t] = [pc |-> "load", name |-> ai_name, tmp |-> 0]]
        /\ UNCHANGED <<govVars, treatVars, examVars, last_call>>

\* line 80, the read of "+= 1"
ThreadLoad ==
    \E t \in Threads :
        /\ in_flight[t].pc = "load"
        /\ in_flight' = [in_flight EXCEPT ![t].pc = "store",
               ![t].tmp = ai_instances[in_flight[t].name].consecutive_errors]
        /\ UNCHANGED <<govVars, treatVars, examVars, last_call>>

\* line 80, the write of "+= 1"
ThreadStore ==
    \E t \in Threads :
        /\ in_flight[t].pc = "store"
        /\ in_flight[t].tmp + 1 <= MaxErrors
        /\ ai_instances' = [ai_instances EXCEPT
               ![in_flight[t].name].consecutive_errors = in_flight[t].tmp + 1]
        /\ in_flight' = [in_flight EXCEPT ![t].pc = "test"]
        /\ UNCHANGED <<audit_log, treatVars, examVars, last_call>>

\* line 82; below the threshold the call returns the validator's verdict
ThreadTest ==
    \E t \in Threads :
        /\ in_flight[t].pc = "test"
        /\ in_flight' = [in_flight EXCEPT ![t].pc =
               IF ReachedDegradation(ai_instances[in_flight[t].name].consecutive_errors)
               THEN "degrade" ELSE "returned"]
        /\ UNCHANGED <<govVars, treatVars, examVars, last_call>>

\* lines 83-84: the health is set and the audit call ends the call
ThreadDegrade ==
    \E t \in Threads :
        /\ in_flight[t].pc = "degrade"
        /\ \E st \in {audit(Begin([ai_instances EXCEPT
                                       ![in_flight[t].name].health = "degraded"],
                                  audit_log),
                            <<"ALERTA", in_flight[t].name>>)} :
              /\ ai_instances' = st.ai
              /\ audit_log' = st.log
              /\ in_flight' = [in_flight EXCEPT ![t].pc =
                     IF st.exc # NoExc THEN "raised" ELSE "recover"]
        /\ UNCHANGED <<treatVars, examVars, last_call>>

NextRace == ThreadCall \/ ThreadLoad \/ ThreadStore \/ ThreadTest \/ ThreadDegrade

SpecRace == InitRace /\ [][NextRace]_vars

(***************************************************************************)
(* Specification SpecCV: _cross_validate on registries of up to            *)
(* MaxPeers + 1 producers, named 1, 2, ...                                 *)
(***************************************************************************)
Registries ==
    UNION {[1..k -> {NewInstance(v) : v \in Validators}] : k \in 1..(MaxPeers + 1)}

InitCV ==
    /\ NoThreads
    /\ ai_instances \in Registries
    /\ audit_log = <<>>
    /\ TreatIdle
    /\ ExamIdle
    /\ last_call = [op |-> "init"]

\* the function is applied once to each registry drawn
CrossValidate ==
    /\ last_call.op = "init"
    /\ \E source_ai \in DOMAIN ai_instances, output \in Outputs :
        \E r \in {cross_validate(Begin(ai_instances, audit_log), source_ai, output)} :
           /\ last_call' = [op |-> "cross_validate", source_ai |-> source_ai,
                            output |-> output, ret |-> r.ret, called |-> r.called]
           /\ UNCHANGED <<raceVars, govVars, treatVars, examVars>>

NextCV == CrossValidate

SpecCV == InitCV /\ [][NextCV]_vars

(***************************************************************************)
(* Specification SpecExam: analyze_performance on performance histories   *)
(* made of up to MaxHead samples of head metrics followed by up to         *)
(* MaxFiller samples of another.  The sample values are whole numbers, for which     *)
(* Python's float subtraction is exact and its division correctly rounded, *)
(* so that the comparisons with 0.1 and -0.1 come out as on the fractions. *)
(***************************************************************************)
ExamValues == {0, 90, 100, 110, 115}
\* the metric of the head: one named by a keyword of the improvement plan,
\* one named by none, one whose name holds two
HeadMetrics == {"accuracy", "success_rate", "accuracy_error_rate"}
HeadSamples == {Sample(metric, Frac(v, 1)) : metric \in HeadMetrics, v \in ExamValues}
Filler(k) == [i \in 1..k |-> Sample("ias_executed", Frac(1, 1))]
ExamHistories ==
    {head \o Filler(k) :
        head \in UNION {[1..j -> HeadSamples] : j \in 0..MaxHead}, k \in 0..MaxFiller}
\* the dicts passed to analyze_performance: one accuracy sample, or the three
\* metrics of a process_request
SampleMetrics ==
    {<<sample>> : sample \in HeadSamples}
        \cup {<<Sample("response_time", Frac(1, 1)), Sample("ias_executed", Frac(1, 1)),
                Sample("success_rate", Frac(1, 1))>>}

InitExam ==
    /\ NoThreads
    /\ GovInit
    /\ TreatIdle
    /\ performance_history \in ExamHistories
    /\ last_call = [op |-> "init"]

AnalyzePerformance ==
    /\ last_call.op = "init"
    /\ \E metrics \in SampleMetrics :
        \E r \in {analyze_performance(performance_history, metrics)} :
           /\ performance_history' = r.history
           /\ last_call' = [op |-> "analyze_performance", metrics |-> metrics,
                            ret |-> r.ret]
           /\ UNCHANGED <<raceVars, govVars, treatVars>>

NextExam == AnalyzePerformance

SpecExam == InitExam /\ [][NextExam]_vars

(***************************************************************************)
(* Specification SpecTreat: the treatment orchestrator                     *)
(***************************************************************************)
SampleConditions == {"viral_infection", "burnout", "unknown_condition"}
SampleOptions == {treatments.viral_infection[1], treatments.burnout[2]}
Severities == {"moderate", "critical"}
InitTreat ==
    /\ NoThreads
    /\ GovInit
    /\ mode \in TreatmentMode
    /\ is_parameterized = Parameterized(mode)
    /\ approved_treatments = <<>>
    /\ execution_handlers = NoHandlers
    /\ handler_calls = <<>>
    /\ running = {}
    /\ ExamIdle
    /\ last_call = [op |-> "init"]

SuggestTreatments ==
    \E condition \in SampleConditions, severity \in Severities :
        /\ last_call' = [op |-> "suggest_treatments", condition |-> condition,
                         severity |-> severity,
                         ret |-> suggest_treatments(condition, severity)]
        /\ UNCHANGED <<raceVars, govVars, treatVars, examVars>>

HumanApprove ==
    \E option \in SampleOptions, human_decision \in BOOLEAN :
        LET r == human_approve_treatment(approved_treatments, option,
                                         human_decision, "rationale")
        IN /\ Len(r.history) <= MaxApproved
           /\ approved_treatments' = r.history
           /\ handler_calls' = IF r.ret.approved THEN Append(handler_calls, 0)
                               ELSE handler_calls
           /\ last_call' = [op |-> "human_approve_treatment", option |-> option,
                            decision |-> human_decision, ret |-> r.ret]
           /\ UNCHANGED <<raceVars, govVars, examVars, mode, is_parameterized, execution_handlers, running>>

AutonomousApprove ==
    \E option \in SampleOptions, severity \in Severities :
        LET r == autonomous_approve_treatment(approved_treatments, is_parameterized,
                                              option, severity)
        IN /\ Len(r.history) <= MaxApproved
           /\ approved_treatments' = r.history
           /\ handler_calls' = IF r.ret.approved THEN Append(handler_calls, 0)
                               ELSE handler_calls
           /\ last_call' = [op |-> "autonomous_approve_treatment", option |-> option,
                            severity |-> severity, ret |-> r.ret]
           /\ UNCHANGED <<raceVars, govVars, examVars, mode, is_parameterized, execution_handlers, running>>

GetTreatmentHistory ==
    /\ last_call' = [op |-> "get_treatment_history",
                     ret |-> get_treatment_history(approved_treatments)]
    /\ UNCHANGED <<raceVars, govVars, treatVars, examVars>>

NextTreat ==
    \/ SuggestTreatments
    \/ HumanApprove
    \/ AutonomousApprove
    \/ GetTreatmentHistory

SpecTreat == InitTreat /\ [][NextTreat]_vars

(***************************************************************************)
(* Specification SpecExec: approval and execution of treatments.  A call   *)
(* whose handler is a coroutine function is two steps, so that other       *)
(* calls can run while the handler is awaited; at most one call per        *)
(* approved treatment is suspended at a time, and at most MaxHandlerCalls  *)
(* handler invocations are explored in one run.                            *)
(***************************************************************************)
ExecOptions == {treatments.viral_infection[1]}
HandlerIds == {o.id : o \in ExecOptions}
HandlerKinds == {"sync", "async"}

RECURSIVE TotalCalls(_)
TotalCalls(calls) == IF calls = <<>> THEN 0 ELSE Head(calls) + TotalCalls(Tail(calls))

InitExec ==
    /\ NoThreads
    /\ GovInit
    /\ mode \in TreatmentMode
    /\ is_parameterized = Parameterized(mode)
    /\ approved_treatments = <<>>
    /\ execution_handlers = NoHandlers
    /\ handler_calls = <<>>
    /\ running = {}
    /\ ExamIdle
    /\ last_call = [op |-> "init"]

RegisterExecutionHandler ==
    \E treatment_id \in HandlerIds, kind \in HandlerKinds :
        /\ execution_handlers' =
               [id \in DOMAIN execution_handlers \cup {treatment_id} |->
                   IF id = treatment_id THEN kind ELSE execution_handlers[id]]
        /\ last_call' = [op |-> "register_execution_handler", id |-> treatment_id]
        /\ UNCHANGED <<raceVars, govVars, examVars, mode, is_parameterized, approved_treatments,
                       handler_calls, running>>

\* what execute_treatment reports about a call on the approved treatment at
\* index i of the history (index 0: an object that is not in the history)
Executed(i, before, r, object, outcome) ==
    [op |-> "execute_treatment", index |-> i, ret |-> r.ret, exc |-> r.exc,
     handler_ran |-> r.handler_ran,
     outcome |-> IF r.handler_ran THEN outcome ELSE "not called",
     status_before |-> before.execution_status, object |-> object]

\* a whole execute_treatment call that does not suspend: no handler is bound,
\* or the handler is a plain function
ExecuteTreatment ==
    \E i \in 1..Len(approved_treatments), outcome \in HandlerOutcomes :
        LET id == approved_treatments[i].treatment_option.id
        IN /\ id \in DOMAIN execution_handlers => execution_handlers[id] = "sync"
           /\ \E r \in {execute_treatment(approved_treatments, execution_handlers,
                                          i, outcome)} :
                /\ r.handler_ran => TotalCalls(handler_calls) < MaxHandlerCalls
                /\ approved_treatments' = r.history
                /\ handler_calls' = [handler_calls EXCEPT
                                        ![i] = @ + (IF r.handler_ran THEN 1 ELSE 0)]
                /\ last_call' = Executed(i, approved_treatments[i], r, r.history[i], outcome)
           /\ UNCHANGED <<raceVars, govVars, examVars, mode, is_parameterized, execution_handlers, running>>

\* execute_treatment with a coroutine handler, up to "await handler()"
ExecuteBegin ==
    \E i \in 1..Len(approved_treatments) \ running :
        LET id == approved_treatments[i].treatment_option.id
        IN /\ id \in DOMAIN execution_handlers
           /\ execution_handlers[id] = "async"
           /\ TotalCalls(handler_calls) < MaxHandlerCalls
           /\ approved_treatments' = execute_begin(approved_treatments, i)
           /\ handler_calls' = [handler_calls EXCEPT ![i] = @ + 1]
           /\ running' = running \cup {i}
           /\ last_call' = [op |-> "execute_begin", index |-> i,
                            status_before |-> approved_treatments[i].execution_status]
           /\ UNCHANGED <<raceVars, govVars, examVars, mode, is_parameterized, execution_handlers>>

\* the rest of that call, once the awaited handler has returned or raised
ExecuteEnd ==
    \E i \in running, outcome \in HandlerOutcomes :
        \E f \in {execute_finish(approved_treatments, i, outcome)} :
           /\ approved_treatments' = f.history
           /\ running' = running \ {i}
           /\ last_call' = Executed(i, approved_treatments[i],
                                    [ret |-> f.ret, exc |-> f.exc, handler_ran |-> TRUE],
                                    f.history[i], outcome)
           /\ UNCHANGED <<raceVars, govVars, examVars, mode, is_parameterized, execution_handlers,
                          handler_calls>>

\* execute_treatment on an ApprovedTreatment the caller constructed itself,
\* which no approval path produced and the history does not hold
ExecuteForeign ==
    \E option \in ExecOptions, outcome \in HandlerOutcomes :
        \E r \in {execute_treatment(<<ApprovedTreatment(option, "human", "not approved")>>,
                                    execution_handlers, 1, outcome)} :
           /\ last_call' = Executed(0, ApprovedTreatment(option, "human", "not approved"),
                                    r, r.history[1], outcome)
           /\ UNCHANGED <<raceVars, govVars, treatVars, examVars>>

NextExec ==
    \/ RegisterExecutionHandler
    \/ HumanApprove
    \/ AutonomousApprove
    \/ ExecuteTreatment
    \/ ExecuteBegin
    \/ ExecuteEnd
    \/ ExecuteForeign
    \/ GetTreatmentHistory

SpecExec == InitExec /\ [][NextExec]_vars

(***************************************************************************)
(* Claims                                                                  *)
(***************************************************************************)
\* what the last verify_output call was about, read from the registry (a
\* call changes neither the set of registered names nor any validator)
VName == last_call.name
VRegistered == VName \in DOMAIN ai_instances
VSelfAccepts == last_call.output \in ai_instances[VName].validator
VOthers == DOMAIN ai_instances \ {VName}
VAccepting == {p \in VOthers : last_call.output \in ai_instances[p].validator}
\* agreement below 0.7, resp. below 0.3, among the other producers
VBelowThreshold == Cardinality(VAccepting) * 10 < 7 * Cardinality(VOthers)
VBelowSevere == Cardinality(VAccepting) * 10 < 3 * Cardinality(VOthers)
VReturned == last_call.exc = NoExc

\* C1: from a counter of 0, the third invalid self-check of a registered
\* producer (the one that finds the counter at 2) returns with the producer
\* degraded, exactly one recovery action run and the counter back at 0.
C1_ThirdInvalidDegradesAndRecovers ==
    (/\ last_call.op = "verify_output"
     /\ VRegistered
     /\ ~VSelfAccepts
     /\ last_call.errors_before = 2)
    => /\ VReturned
       /\ ai_instances[VName].health = "degraded"
       /\ last_call.recov = 1
       /\ ai_instances[VName].consecutive_errors = 0

\* C2: verify_output returns valid = true, with confidence 0.95, exactly when
\* the producer is registered, its own validator accepts the output and it
\* either has no peer or its peers' agreement is not below the threshold.
C2_ValidExactlyWhenAccepted ==
    last_call.op = "verify_output"
    => /\ (VReturned /\ last_call.ret.valid)
            <=> (/\ VRegistered
                 /\ VSelfAccepts
                 /\ (Cardinality(DOMAIN ai_instances) = 1 \/ ~VBelowThreshold))
       /\ (VReturned /\ last_call.ret.valid)
            => last_call.ret.confidence = Frac(95, 100)

C2_Witness ==
    /\ last_call.op = "verify_output"
    /\ VReturned
    /\ last_call.ret.valid
    /\ last_call.output = "bad"
    /\ Cardinality(DOMAIN ai_instances) = 3

\* C5: when the producer's own validator rejects the output, verify_output
\* returns valid = false, has invoked no validator but the producer's own,
\* and has run the failure path once (the counter went up by one, or was
\* reset by the recovery that the third error triggers).
C5_InvalidSelfCheckReturnsFalse ==
    (/\ last_call.op = "verify_output"
     /\ VRegistered
     /\ ~VSelfAccepts)
    => /\ VReturned
       /\ last_call.ret.valid = FALSE
       /\ last_call.called = <<VName>>
       /\ \/ ai_instances[VName].consecutive_errors = last_call.errors_before + 1
          \/ /\ last_call.errors_before + 1 >= 3
             /\ ai_instances[VName].consecutive_errors = 0

\* C6: when the self-check passes and the peers' agreement is below the
\* threshold, verify_output returns valid = false with the anomaly reason and
\* the audit log has gained the anomaly entry followed by its classification:
\* ROLLBACK below 0.3, FEEDBACK otherwise.
C6_AnomalyReturnsFalseAndIsAudited ==
    (/\ last_call.op = "verify_output"
     /\ VRegistered
     /\ VSelfAccepts
     /\ VOthers # {}
     /\ VBelowThreshold)
    => /\ VReturned
       /\ last_call.ret.valid = FALSE
       /\ last_call.ret.reason = "Anomalia detectada"
       /\ Len(audit_log) = last_call.log_before + 2
       /\ audit_log[Len(audit_log) - 1][1] = "ANOMALIA"
       /\ audit_log[Len(audit_log)][1] = IF VBelowSevere THEN "ROLLBACK" ELSE "FEEDBACK"

\* C3: the report of a cross-validation that consulted at least one producer
\* flags an anomaly exactly when its agreement rate is strictly below 0.7; a
\* rate of exactly 0.7 is no anomaly.
C3_AnomalyIffBelowThreshold ==
    (last_call.op = "cross_validate" /\ "agreement_rate" \in DOMAIN last_call.ret)
    => LET rate == last_call.ret.agreement_rate
       IN /\ last_call.ret.anomaly_detected <=> (rate.num * 10 < 7 * rate.den)
          /\ last_call.ret.required_threshold = Frac(7, 10)

C3_Witness ==
    /\ last_call.op = "cross_validate"
    /\ "agreement_rate" \in DOMAIN last_call.ret
    /\ last_call.ret.agreement_rate = Frac(7, 10)
    /\ ~last_call.ret.anomaly_detected

\* C4: with at least one other producer registered, the agreement rate is the
\* number of other producers whose validator accepts the output over the
\* number of other producers; the source's own validator is not consulted.
C4_RateIsFractionOfOthers ==
    (last_call.op = "cross_validate" /\ Cardinality(DOMAIN ai_instances) >= 2)
    => LET others == DOMAIN ai_instances \ {last_call.source_ai}
           accepting == {p \in others : last_call.output \in ai_instances[p].validator}
       IN /\ "agreement_rate" \in DOMAIN last_call.ret
          /\ last_call.ret.agreement_rate =
                 Frac(Cardinality(accepting), Cardinality(others))
          /\ \A k \in 1..Len(last_call.called) :
                 last_call.called[k] # last_call.source_ai

\* three producers, the source itself rejects the output, both peers accept it
C4_Witness ==
    /\ last_call.op = "cross_validate"
    /\ Cardinality(DOMAIN ai_instances) = 3
    /\ last_call.output \notin ai_instances[last_call.source_ai].validator
    /\ last_call.ret.agreement_rate = Frac(2, 2)

\* the verdict process_request is to get for a chain entry, from the registry
\* the request started with
PAccepted(e) ==
    LET reg == last_call.before
        others == DOMAIN reg \ {e.name}
        accepting == {p \in others : e.output \in reg[p].validator}
    IN /\ e.name \in DOMAIN reg
       /\ e.output \in reg[e.name].validator
       /\ (others = {} \/ ~(Cardinality(accepting) * 10 < 7 * Cardinality(others)))

PExpectedResults ==
    LET kept == SelectSeq(last_call.chain, PAccepted)
    IN [k \in 1..Len(kept) |-> [ia |-> kept[k].name, output |-> kept[k].output]]

\* C7: process_request never raises for a rejected or anomalous output: it
\* runs to the end of the chain and returns.
C7_ProcessRequestNeverRaises ==
    last_call.op = "process_request"
    => /\ last_call.exc = NoExc
       /\ Len(last_call.invoked) = Len(last_call.chain)

\* C8: process_request invokes each chain entry's producer exactly once, in
\* order, and returns exactly the entries whose verification is valid, in
\* chain order.
C8_ResultsAreTheValidEntries ==
    last_call.op = "process_request"
    => /\ last_call.exc = NoExc
       /\ last_call.invoked = [k \in 1..Len(last_call.chain) |-> k]
       /\ last_call.results = PExpectedResults

\* C9: a process_request that returns reports ias_executed = number of
\* results and success_rate = results / chain length; an empty chain returns,
\* with no results and a success_rate of 0.
C9_SuccessRate ==
    last_call.op = "process_request"
    => /\ last_call.chain = <<>> =>
            /\ last_call.exc = NoExc
            /\ last_call.results = <<>>
            /\ last_call.metrics.success_rate = Frac(0, 1)
       /\ last_call.exc = NoExc =>
            /\ last_call.metrics.ias_executed = Len(last_call.results)
            /\ last_call.metrics.success_rate.den # 0
            /\ last_call.metrics.success_rate.num * Len(last_call.chain)
                   = Len(last_call.results) * last_call.metrics.success_rate.den
            /\ Len(last_call.results) = Len(PExpectedResults)

C9_Witness ==
    /\ last_call.op = "process_request"
    /\ last_call.exc = NoExc
    /\ Len(last_call.chain) = 2
    /\ Len(last_call.results) = 1
    /\ last_call.metrics.success_rate = Frac(1, 2)

\* C10: autonomous_approve_treatment approves (approved_by orchestrator) only
\* in autonomous mode, for an option that requires human approval, at
\* critical severity; in human_in_loop mode it returns None and the history
\* never holds an orchestrator-approved treatment.
C10_AutonomousApprovalOnlyWhenAuthorized ==
    /\ (last_call.op = "autonomous_approve_treatment" /\ last_call.ret.approved)
        => /\ mode = AUTONOMOUS
           /\ last_call.option.requires_human_approval
           /\ last_call.severity = "critical"
           /\ last_call.ret.treatment.approved_by = "orchestrator"
           /\ approved_treatments[Len(approved_treatments)] = last_call.ret.treatment
    /\ mode = HUMAN_IN_LOOP
        => /\ \A i \in 1..Len(approved_treatments) :
                  approved_treatments[i].approved_by # "orchestrator"
           /\ last_call.op = "autonomous_approve_treatment" => ~last_call.ret.approved

C10_Witness ==
    /\ last_call.op = "autonomous_approve_treatment"
    /\ last_call.ret.approved
    /\ mode = AUTONOMOUS
    /\ approved_treatments[Len(approved_treatments)].approved_by = "orchestrator"

\* the last step was an execute_treatment call that has ended (by returning
\* or by raising), on an approved treatment of the history
XEnded == last_call.op = "execute_treatment"
XOnHistory == XEnded /\ last_call.index \in 1..Len(approved_treatments)
\* position of a status along pending -> executing -> completed | failed
StatusRank(status) ==
    IF status = "pending" THEN 0 ELSE IF status = "executing" THEN 1 ELSE 2

\* C11: the execution_status of an approved treatment only moves forward along
\* pending -> executing -> completed or failed: no step takes it from
\* completed or failed back to executing or pending.
C11_StatusOnlyMovesForward ==
    [][\A i \in 1..Len(approved_treatments) :
          StatusRank(approved_treatments'[i].execution_status)
              >= StatusRank(approved_treatments[i].execution_status)]_vars

\* C12 as claimed: with a handler bound, execute_treatment never lets an
\* exception escape; it returns true with status completed when the handler
\* returns and false with status failed when the handler raises anything.
C12_NoExceptionEscapes ==
    (XEnded /\ last_call.handler_ran) =>
        /\ last_call.exc = NoExc
        /\ last_call.object.execution_status \in {"completed", "failed"}
        /\ last_call.ret <=> (last_call.outcome = Returns)

\* C12, amended: with a handler bound, execute_treatment returns true with
\* status completed and the result as text when the handler returns, and
\* returns false with status failed and the exception text when the handler
\* raises an exception derived from Exception; whenever it returns the status
\* is completed or failed.  An exception that is not derived from Exception
\* escapes the call.
C12_ExceptionsAreCaptured ==
    (XEnded /\ last_call.handler_ran) =>
        /\ last_call.outcome = Returns =>
              /\ last_call.exc = NoExc /\ last_call.ret
              /\ last_call.object.execution_status = "completed"
              /\ last_call.object.execution_result = "str(result)"
        /\ last_call.outcome = RaisesException =>
              /\ last_call.exc = NoExc /\ ~last_call.ret
              /\ last_call.object.execution_status = "failed"
              /\ last_call.object.execution_result = "str(e)"
        /\ last_call.outcome = RaisesBaseException =>
              last_call.exc = BaseExceptionEscapes
        /\ last_call.exc = NoExc =>
              last_call.object.execution_status \in {"completed", "failed"}

\* a handler raised an exception derived from Exception and the call returned
C12_Witness ==
    /\ XOnHistory /\ last_call.handler_ran
    /\ last_call.outcome = RaisesException
    /\ last_call.exc = NoExc /\ ~last_call.ret
    /\ approved_treatments[last_call.index].execution_status = "failed"

\* C13 as claimed: execute_treatment on an approved treatment whose option id
\* has no handler raises NoHandlerError to its caller, sets the status failed
\* and invokes no handler.
C13_NoHandlerRaises ==
    (XOnHistory /\ last_call.outcome = "not called") =>
        /\ last_call.exc = "NoHandlerError"
        /\ last_call.object.execution_status = "failed"
        /\ ~last_call.handler_ran

\* C13, amended: execute_treatment on an approved treatment whose option id
\* has no handler raises nothing: it returns false, sets the status failed
\* with the result "No handler registered", and invokes no handler.
C13_NoHandlerReturnsFalse ==
    (XOnHistory
        /\ last_call.object.treatment_option.id \notin DOMAIN execution_handlers) =>
        /\ last_call.exc = NoExc /\ ~last_call.ret
        /\ last_call.object.execution_status = "failed"
        /\ last_call.object.execution_result = "No handler registered"
        /\ ~last_call.handler_ran
        /\ handler_calls[last_call.index] = 0

\* a pending approved treatment was executed while no handler was bound
C13_Witness ==
    /\ XOnHistory
    /\ last_call.object.treatment_option.id \notin DOMAIN execution_handlers
    /\ last_call.status_before = "pending"
    /\ approved_treatments[last_call.index].execution_status = "failed"

\* C14: the handler is invoked at most once for an approved treatment (an
\* approval creates a new approved treatment, with a count of its own).
C14_HandlerRunsAtMostOncePerApproval ==
    \A i \in 1..Len(approved_treatments) : handler_calls[i] <= 1

\* C15: execute_treatment runs a handler only for approved treatments that
\* an approval path created and the history holds; for any other object it
\* runs no handler.
C15_OnlyApprovedObjectsAreExecuted ==
    (XEnded /\ last_call.handler_ran) => last_call.index \in 1..Len(approved_treatments)

\* the invalid self-checks that a call (the value of last_call after a step)
\* has put producer n through, given the registry before the step
InvalidSelfChecks(call, ai, n) ==
    IF call.op = "verify_output"
    THEN IF call.name = n /\ call.output \notin ai[n].validator THEN 1 ELSE 0
    ELSE IF call.op = "process_request"
    THEN Cardinality({k \in 1..Len(call.invoked) :
                         /\ call.chain[call.invoked[k]].name = n
                         /\ call.chain[call.invoked[k]].output \notin ai[n].validator})
    ELSE 0
\* the recovery action has run in the call
Recovered(call) == call.op \in {"verify_output", "process_request"} /\ call.recov > 0
Reregistered(call, n) == call.op = "register_ai" /\ call.name = n

\* C16 as claimed: the consecutive-error counter of a producer changes only
\* by +1 for each invalid self-check, or to 0 by the recovery action; nothing
\* else lowers or resets it, registering the name again included.
C16_CounterOnlyStepsUpOrRecovers ==
    [][\A n \in DOMAIN ai_instances :
          /\ n \in DOMAIN ai_instances'
          /\ \/ ai_instances'[n].consecutive_errors = ai_instances[n].consecutive_errors
                    + InvalidSelfChecks(last_call', ai_instances, n)
             \/ /\ ai_instances'[n].consecutive_errors = 0
                /\ Recovered(last_call')]_vars

\* C16, amended: the consecutive-error counter of a producer changes only by
\* +1 for each invalid self-check, to 0 by the recovery action, or to 0 when
\* its name is registered again; a successful self-check, anomaly handling,
\* process_request and the health report do not lower or reset it.
C16_CounterStepsUpRecoversOrIsReregistered ==
    [][\A n \in DOMAIN ai_instances :
          /\ n \in DOMAIN ai_instances'
          /\ \/ /\ ~Reregistered(last_call', n)
                /\ ai_instances'[n].consecutive_errors =
                       ai_instances[n].consecutive_errors
                           + InvalidSelfChecks(last_call', ai_instances, n)
             \/ /\ ai_instances'[n].consecutive_errors = 0
                /\ Recovered(last_call') \/ Reregistered(last_call', n)]_vars

\* a name with a counter above 0 was registered again
C16_Witness ==
    /\ last_call.op = "register_ai"
    /\ last_call.errors_before > 0
    /\ ai_instances[last_call.name].consecutive_errors = 0

\* C17: once the health of a producer is degraded, no verify_output call,
\* recovery action, process_request or health report sets it back to
\* healthy (register_ai is not one of those operations).
C17_DegradedStaysDegraded ==
    [][\A n \in DOMAIN ai_instances :
          (ai_instances[n].health = "degraded" /\ last_call'.op # "register_ai")
              => (n \in DOMAIN ai_instances' /\ ai_instances'[n].health = "degraded")]_vars

\* a degraded producer passed a self-check and is still degraded
C17_Witness ==
    /\ last_call.op = "verify_output"
    /\ VRegistered /\ VSelfAccepts
    /\ last_call.health_before = "degraded"
    /\ ai_instances[VName].health = "degraded"

\* C18 as claimed: verify_output for a name that is not registered raises
\* UnregisteredProducerError, invokes no validator and changes no producer
\* record and no audit entry.
C18_UnregisteredRaises ==
    (last_call.op = "verify_output" /\ ~VRegistered) =>
        /\ last_call.exc = "UnregisteredProducerError"
        /\ last_call.called = <<>>
        /\ Len(audit_log) = last_call.log_before

\* C18, amended: verify_output for a name that is not registered raises
\* nothing: it returns valid = false with the reason "IA no registrada",
\* invokes no validator and changes no producer record and no audit entry.
C18_UnregisteredReturnsInvalid ==
    [][(last_call'.op = "verify_output" /\ last_call'.name \notin DOMAIN ai_instances) =>
          /\ last_call'.exc = NoExc
          /\ last_call'.ret = [valid |-> FALSE, reason |-> "IA no registrada"]
          /\ last_call'.called = <<>>
          /\ ai_instances' = ai_instances
          /\ audit_log' = audit_log]_vars

\* verify_output was called with an unknown name on a registry that holds
\* other producers
C18_Witness ==
    /\ last_call.op = "verify_output" /\ ~VRegistered
    /\ DOMAIN ai_instances # {}
    /\ last_call.called = <<>>

\* the last step was an analyze_performance call
AEnded == last_call.op = "analyze_performance"
\* the samples of a metric among the last TrendWindow entries of the history
InWindow(metric) == ValuesOf(LastEntries(performance_history, TrendWindow), metric)

\* C19: the trend reported for a metric is the one of that metric's own 10
\* most recent samples, however many samples of other metrics were recorded
\* in between.
C19_TrendFromOwnLastTenSamples ==
    AEnded =>
        \A metric \in DOMAIN last_call.ret.trends :
            last_call.ret.trends[metric] =
                trend_of(LastEntries(ValuesOf(performance_history, metric), TrendWindow))

\* C20: a metric with fewer than 2 samples in its window has the trend
\* insufficient_data; otherwise, with relative_change = (newest - oldest) /
\* oldest, it is improving when relative_change > 0.1, declining when
\* relative_change < -0.1 and stable otherwise, and stable when oldest = 0.
\* (For oldest > 0: relative_change > 0.1 iff 10 * newest > 11 * oldest, and
\* relative_change < -0.1 iff 10 * newest < 9 * oldest.)
C20_TrendThresholds ==
    AEnded =>
        \A metric \in DOMAIN last_call.ret.trends :
            LET samples == InWindow(metric)
                oldest == samples[1]
                newest == samples[Len(samples)]
                trend == last_call.ret.trends[metric]
            IN IF Len(samples) < 2 THEN trend = "insufficient_data"
               ELSE IF oldest.num = 0 THEN trend = "stable"
               ELSE /\ oldest.num > 0
                    /\ trend = "improving" <=>
                           10 * newest.num * oldest.den > 11 * oldest.num * newest.den
                    /\ trend = "declining" <=>
                           10 * newest.num * oldest.den < 9 * oldest.num * newest.den
                    /\ trend \in {"improving", "declining", "stable"}

\* a metric whose relative change is exactly 0.1 was reported as stable
C20_Witness ==
    /\ AEnded
    /\ \E metric \in DOMAIN last_call.ret.trends :
          /\ Len(InWindow(metric)) >= 2
          /\ InWindow(metric)[1].num > 0
          /\ 10 * InWindow(metric)[Len(InWindow(metric))].num * InWindow(metric)[1].den
                = 11 * InWindow(metric)[1].num * InWindow(metric)[Len(InWindow(metric))].den
          /\ last_call.ret.trends[metric] = "stable"

\* the positions of a sequence that hold a given element
PositionsOf(seq, x) == {k \in 1..Len(seq) : seq[k] = x}

\* C21: in every analysis the diagnosis has exactly one issue per declining
\* metric and one strength per improving metric, none for any other metric,
\* and the improvement plan has exactly one suggestion for each issue that
\* mentions response_time, accuracy or error_rate and none for any other.
C21_DiagnosisAndPlan ==
    AEnded =>
        LET trends == last_call.ret.trends
            issues == last_call.ret.diagnosis.issues
            strengths == last_call.ret.diagnosis.strengths
            plan == last_call.ret.improvement_plan
        IN /\ \A metric \in DOMAIN trends :
                /\ Cardinality(PositionsOf(issues, metric)) =
                       IF trends[metric] = "declining" THEN 1 ELSE 0
                /\ Cardinality(PositionsOf(strengths, metric)) =
                       IF trends[metric] = "improving" THEN 1 ELSE 0
           /\ \A k \in 1..Len(issues) : issues[k] \in DOMAIN trends
           /\ \A k \in 1..Len(strengths) : strengths[k] \in DOMAIN trends
           /\ Len(plan) = Cardinality({k \in 1..Len(issues) : KeywordsIn(issues[k]) # {}})

\* a declining metric whose name holds two of the keywords is the one issue,
\* and the plan has one suggestion for it
C21_Witness ==
    /\ AEnded
    /\ last_call.ret.diagnosis.issues = <<"accuracy_error_rate">>
    /\ Len(last_call.ret.improvement_plan) = 1

\* the fields of an approved treatment that its approval fixes
Approval(t) == [treatment_option |-> t.treatment_option, approved_by |-> t.approved_by,
                approval_rationale |-> t.approval_rationale]
Approvals(history) == [k \in 1..Len(history) |-> Approval(history[k])]
\* a call (the value of last_call after a step) is an approval that approved
IsApproval(call) ==
    /\ call.op \in {"human_approve_treatment", "autonomous_approve_treatment"}
    /\ call.ret.approved

\* C22: the treatment history gains exactly one entry, at its end and
\* pending, for each human approval with decision true (approved_by human)
\* and each autonomous approval that approved (approved_by orchestrator); a
\* rejection or a declined autonomous approval adds nothing; no operation,
\* execute_treatment included, removes or reorders entries; and
\* get_treatment_history lists the entries in that order.
C22_HistoryIsAppendOnly ==
    [][/\ last_call'.op = "human_approve_treatment" =>
              (last_call'.ret.approved <=> last_call'.decision)
       /\ IF IsApproval(last_call')
          THEN /\ Len(approved_treatments') = Len(approved_treatments) + 1
               /\ SubSeq(approved_treatments', 1, Len(approved_treatments))
                      = approved_treatments
               /\ LET new == approved_treatments'[Len(approved_treatments')]
                  IN /\ new.treatment_option = last_call'.option
                     /\ new.approved_by =
                            IF last_call'.op = "human_approve_treatment"
                            THEN "human" ELSE "orchestrator"
                     /\ new.execution_status = "pending"
                     /\ new = last_call'.ret.treatment
          ELSE Approvals(approved_treatments') = Approvals(approved_treatments)
       /\ last_call'.op = "get_treatment_history" =>
              /\ Len(last_call'.ret) = Len(approved_treatments)
              /\ \A k \in 1..Len(approved_treatments) :
                    /\ last_call'.ret[k].treatment_id =
                           approved_treatments[k].treatment_option.id
                    /\ last_call'.ret[k].approved_by = approved_treatments[k].approved_by
                    /\ last_call'.ret[k].execution_status =
                           approved_treatments[k].execution_status]_vars

\* an autonomous approval was appended, pending, behind an approved treatment
\* that has been executed
C22_Witness ==
    /\ last_call.op = "autonomous_approve_treatment" /\ last_call.ret.approved
    /\ Len(approved_treatments) = 2
    /\ approved_treatments[1].approved_by = "human"
    /\ approved_treatments[1].execution_status = "completed"
    /\ approved_treatments[2].approved_by = "orchestrator"
    /\ approved_treatments[2].execution_status = "pending"

\* C23: two approved treatments for the same target (the same treatment
\* option) are never executing at the same time: while the handler of one is
\* awaited, the handler of another has not been started.
C23_OneExecutionAtATime ==
    \A i \in running : \A j \in running :
        (i # j) => approved_treatments[i].treatment_option.id
                       # approved_treatments[j].treatment_option.id

\* the threads whose call has written its increment of the producer's counter
Incremented(name) ==
    {t \in Threads : in_flight[t].name = name
                     /\ in_flight[t].pc \in {"test", "degrade", "returned", "raised"}}
\* the threads between the read of a producer's counter and the end of the
\* call's work on the record
InUpdate(name) ==
    {t \in Threads : in_flight[t].name = name
                     /\ in_flight[t].pc \in {"store", "test", "degrade"}}

\* C24: concurrent verify_output calls that fail the self-check of the same
\* producer update its record one at a time: the counter has grown by one
\* for every call that has incremented it (no increment is lost), and no
\* two calls are between their read of the counter and the end of their
\* update together.
C24_CounterUpdatesAreExclusive ==
    \A name \in DOMAIN ai_instances :
        /\ ai_instances[name].consecutive_errors =
               last_call.before[name].consecutive_errors
                   + Cardinality(Incremented(name))
        /\ Cardinality(InUpdate(name)) <= 1

\* C25: in process_request the producers are invoked one after another in
\* chain order, and the producer of entry i + 1 is invoked only when the
\* verification of entry i's output (with its update of the health record)
\* has returned: every invocation but the first comes right after the
\* verification of the entry before it, and no verification is outstanding
\* when the request returns.
C25_NextProducerAfterVerification ==
    last_call.op = "process_request"
    => LET events == last_call.events
           invocations == SelectSeq(events, LAMBDA e : e.ev = "invoked")
       IN /\ \A k \in 1..Len(invocations) :
                invocations[k] = Invoked(last_call.chain, k)
          /\ \A k \in 1..Len(events) :
                (events[k].ev = "invoked" /\ events[k].i > 1)
                => /\ k > 1
                   /\ events[k - 1] = Verified(last_call.chain, events[k].i - 1)
          /\ \A k \in 1..Len(events) :
                events[k].ev = "verified"
                => /\ k > 1
                   /\ events[k - 1] = Invoked(last_call.chain, events[k].i)
          /\ last_call.exc = NoExc
                => /\ Len(events) = 2 * Len(last_call.chain)
                   /\ Len(events) > 0 => events[Len(events)].ev = "verified"

\* a request over two chain entries whose first output was rejected, its
\* producer's counter updated before the second producer ran
C25_Witness ==
    /\ last_call.op = "process_request"
    /\ last_call.exc = NoExc
    /\ Len(last_call.events) = 4
    /\ last_call.verdicts[1] = FALSE
    /\ last_call.chain[1].name \in DOMAIN last_call.before
    /\ last_call.chain[2].name # last_call.chain[1].name
    /\ ai_instances[last_call.chain[1].name].consecutive_errors
           = last_call.before[last_call.chain[1].name].consecutive_errors + 1

\* C26: get_health_report changes no state (producer records, audit log,
\* performance history, treatments), it can be called and returns in every
\* reachable state, with no producer registered and no sample recorded as
\* with any registry, and the producer count and per-producer health it
\* reports are those of the current registry.
C26_HealthReportIsReadOnly ==
    [][/\ ENABLED GetHealthReport
       /\ last_call'.op = "get_health_report"
          => /\ last_call'.exc = NoExc
             /\ UNCHANGED <<govVars, examVars, treatVars>>
             /\ last_call'.ias_registered = Cardinality(DOMAIN ai_instances)
             /\ DOMAIN last_call'.governance_status = DOMAIN ai_instances
             /\ \A n \in DOMAIN ai_instances :
                   last_call'.governance_status[n] = ai_instances[n].health
             /\ DOMAIN last_call'.performance_trend =
                    {performance_history[k].metric : k \in 1..Len(performance_history)}
             /\ last_call'.audit_log_size = Len(audit_log)]_vars

\* a report on a registry with a degraded producer, after a request has
\* recorded samples
C26_Witness ==
    /\ last_call.op = "get_health_report"
    /\ performance_history # <<>>
    /\ \E n \in DOMAIN ai_instances : last_call.governance_status[n] = "degraded"
    /\ \E n \in DOMAIN ai_instances : last_call.governance_status[n] = "healthy"

\* C27: register_ai(name, kind, validator) completes normally and leaves the
\* named producer registered healthy, with counter 0 and the given validator,
\* the registration is recorded in the audit log, and the records of all
\* other producers are as they were.
C27_RegisterCompletesAndIsAudited ==
    [][last_call'.op = "register_ai"
       => LET name == last_call'.name
          IN /\ last_call'.exc = NoExc
             /\ name \in DOMAIN ai_instances'
             /\ ai_instances'[name] = NewInstance(last_call'.validator)
             /\ Len(audit_log') = Len(audit_log) + 1
             /\ audit_log'[Len(audit_log')][1] = "IA registrada"
             /\ DOMAIN ai_instances' = DOMAIN ai_instances \cup {name}
             /\ \A n \in DOMAIN ai_instances \ {name} :
                   ai_instances'[n] = ai_instances[n]]_vars

\* C28: between operations, after any sequence of register_ai, verify_output
\* and process_request calls, the consecutive-error counter of every
\* producer is between 0 and 2: the call that takes it to 3 resets it.
C28_CounterRestsBelowThree ==
    \A n \in DOMAIN ai_instances :
        ai_instances[n].consecutive_errors \in 0..2

\* C29: a verify_output call for producer P changes the counter and the
\* health of no other producer, and when P's own validator accepts the
\* output, an anomaly being detected or not, it changes P's counter and
\* health neither: anomalies do not count towards degradation.
C29_OnlyFailedSelfCheckTouchesRecord ==
    [][last_call'.op = "verify_output"
       => /\ DOMAIN ai_instances' = DOMAIN ai_instances
          /\ \A n \in DOMAIN ai_instances :
                (n # last_call'.name \/ last_call'.output \in ai_instances[n].validator)
                => ai_instances'[n] = ai_instances[n]]_vars

\* an anomaly was detected on an output its producer accepts; a peer that
\* rejects it stands at two errors as before
C29_Witness ==
    /\ last_call.op = "verify_output"
    /\ VRegistered /\ VSelfAccepts
    /\ VOthers # {} /\ VBelowThreshold
    /\ \E p \in VOthers : /\ last_call.output \notin ai_instances[p].validator
                          /\ ai_instances[p].consecutive_errors = 2

\* the registries Spec can reach that differ from ai in nothing but the
\* health and the consecutive-error counters of the producers
SameButHealth(ai) ==
    {alt \in [DOMAIN ai -> ReachableInstances] :
        \A n \in DOMAIN ai : alt[n].validator = ai[n].validator}

\* C30: the result of verify_output does not depend on health or error
\* counters: the call made the same way on a registry that differs only in
\* the producers' health and counters ends the same way, with the same
\* value returned.
C30_VerdictIgnoresHealth ==
    [][last_call'.op = "verify_output"
       => \A alt \in SameButHealth(ai_instances) :
             \E r \in {verify_output(Begin(alt, audit_log),
                                     last_call'.name, last_call'.output)} :
                /\ r.exc = last_call'.exc
                /\ r.ret = last_call'.ret]_vars

====
